---- MODULE Spec2Model ----
(***************************************************************************)
(* The event Binder of chimee (src/src/dispatcher/binder.js): the event    *)
(* descriptor resolver, the native relay lifecycle, the pending queue, the *)
(* kernel and DOM migrations, the pointer-containment relay and teardown.  *)
(*                                                                         *)
(* An event name is a sequence of tokens: "beforePlay" is                  *)
(* <<"before", "Play">>, "c_click" is <<"c_", "click">>.  A JavaScript     *)
(* value is a record [type, val]; val is the token sequence of a string    *)
(* and the label of a function.                                            *)
(***************************************************************************)
EXTENDS Integers, Sequences, FiniteSets, TLC

\* ---------------------------------------------------------------- values

Absent == "absent"

Undef == [type |-> "undefined", val |-> <<>>]

Num == [type |-> "number", val |-> <<"42">>]

Str(tokens) == [type |-> "string", val |-> tokens]

Fun(label) == [type |-> "function", val |-> <<label>>]

isString(v) == v.type = "string"

isFunction(v) == v.type = "function"

\* JavaScript truthiness of the values above (`!name`, `!id`).
Truthy(v) == \/ v.type = "function"
             \/ v.type = "number"
             \/ (v.type = "string" /\ v.val # <<>>)

\* Array.prototype.indexOf on a sequence: 0-based index, -1 when absent.
IndexOf(seq, x) ==
  IF \E i \in 1..Len(seq) : seq[i] = x
  THEN (CHOOSE i \in 1..Len(seq) : seq[i] = x /\ \A j \in 1..(i - 1) : seq[j] # x) - 1
  ELSE -1

\* Array.prototype.splice(index, 1) with a 0-based index.
Splice1(seq, index) ==
  [i \in 1..(Len(seq) - 1) |-> IF i <= index THEN seq[i] ELSE seq[i + 1]]

\* ------------------------------------------------- helper/const's tables

\* "error" is a name of the video element and of the media engine alike.
videoEvents == {<<"play">>, <<"error">>}

kernelEvents == {<<"heartbeat">>, <<"error">>}

domEvents == {<<"click">>, <<"mouseenter">>, <<"mouseleave">>}

esFullscreenEvents == {<<"fullscreenchange">>}

passiveEvents == {<<"wheel">>}

mustListenVideoDomEvents == <<<<"mouseenter">>, <<"mouseleave">>>>

\* --------------------------------------------------------------- resolver

\* secondaryReg = /^(before|after|_)/ on a token sequence.
secondaryReg(name) == Len(name) > 0 /\ Head(name) \in {"before", "after", "_"}

\* new RegExp('^(c|w)_') on a token sequence.
targetKeyReg(name) == Len(name) > 0 /\ Head(name) \in {"c_", "w_"}

\* String.prototype.toLowerCase on the first letter of a token.
Decapitalize(tok) ==
  CASE tok = "Play" -> "play"
    [] tok = "Click" -> "click"
    [] tok = "Error" -> "error"
    [] tok = "Before" -> "before"
    [] OTHER -> tok

\* chimee-helper's camelize on a sequence of word tokens: the first letter is
\* lowered, the rest is kept.
camelize(name) ==
  IF name = <<>> THEN name ELSE <<Decapitalize(Head(name))>> \o Tail(name)

NoOldInfo == [found |-> FALSE, name |-> <<>>, target |-> Absent]

getEventTargetByOldLogic(oldName) ==
  IF targetKeyReg(oldName)
  THEN [found |-> TRUE,
        name |-> Tail(oldName),
        target |-> IF Head(oldName) = "c_" THEN "container" ELSE "wrapper"]
  ELSE IF oldName = <<"error">>
  THEN [found |-> TRUE, name |-> <<"error">>, target |-> "kernel"]
  ELSE NoOldInfo

getEventStage(name) ==
  IF secondaryReg(name)
  THEN [stage |-> Head(name), name |-> camelize(Tail(name))]
  ELSE [stage |-> "main", name |-> name]

\* A variant that looks in the kernel table first.
getEventTargetByEventName_KernelFirst(name) ==
  IF name \in kernelEvents THEN "kernel"
  ELSE IF name \in videoEvents THEN "video"
  ELSE IF name \in domEvents THEN "video-dom"
  ELSE IF name \in esFullscreenEvents THEN "esFullscreen"
  ELSE "plugin"

getEventTargetByEventName(name) ==
  IF name \in videoEvents THEN "video"
  ELSE IF name \in kernelEvents THEN "kernel"
  ELSE IF name \in domEvents THEN "video-dom"
  ELSE IF name \in esFullscreenEvents THEN "esFullscreen"
  ELSE "plugin"

\* info.name is a string here; name, target and stage of the result are a
\* token sequence and two plain strings.
getEventInfo(info) ==
  LET oldInfo == getEventTargetByOldLogic(info.name.val)
      name1 == IF oldInfo.found THEN oldInfo.name ELSE info.name.val
      target1 == IF oldInfo.found THEN oldInfo.target ELSE info.target
      staged == getEventStage(name1)
      target2 == IF target1 = Absent THEN getEventTargetByEventName(staged.name)
                 ELSE target1
  IN [name |-> staged.name,
      stage |-> IF info.stage = Absent THEN staged.stage ELSE info.stage,
      target |-> target2]

\* A variant that looks at the name only.
isEventEmitalbe_NameOnly(info) ==
  IF ~Truthy(info.name) \/ ~isString(info.name) \/ secondaryReg(info.name.val)
  THEN FALSE
  ELSE TRUE

isEventEmitalbe(info) ==
  IF ~Truthy(info.name) \/ ~isString(info.name) \/ secondaryReg(info.name.val)
  THEN FALSE
  ELSE IF ~Truthy(info.id) \/ ~isString(info.id)
  THEN FALSE
  ELSE TRUE

\* checkEventEmitParameter overwrites the target only; the name stays raw.
checkEventEmitParameter(info) ==
  [info EXCEPT !.target = getEventInfo(info).target]

\* A variant that passes any handler on.
prettifyEventParameter_NoFnCheck(info) ==
  LET e == getEventInfo(info)
  IN [threw |-> FALSE, id |-> info.id, fn |-> info.fn,
      name |-> e.name, target |-> e.target, stage |-> e.stage]

prettifyEventParameter(info) ==
  LET e == getEventInfo(info)
  IN [threw |-> ~isFunction(info.fn), id |-> info.id, fn |-> info.fn,
      name |-> e.name, target |-> e.target, stage |-> e.stage]

\* ------------------------------------------------------------------ state

kinds == <<"kernel", "container", "wrapper", "video", "video-dom", "plugin",
           "esFullscreen">>

Kinds == {kinds[i] : i \in 1..Len(kinds)}

NoKernel == "nokernel"

KernelObjs == {"k1", "k2"}

VideoNodes == {"v1", "v2"}

ExtendedNodes == {"e1"}

Nodes == {"container", "wrapper"} \cup VideoNodes \cup ExtendedNodes

VARIABLES
  kernel,              \* __dispatcher.kernel: NoKernel or a media engine
  kernelListeners,     \* listeners registered on the media engines
  domListeners,        \* listeners registered on the DOM nodes
  videoElement,        \* __dispatcher.dom.videoElement
  videoExtendedNodes,  \* __dispatcher.dom.videoExtendedNodes
  mouseInVideo,        \* __dispatcher.dom.mouseInVideo
  bindedEventNames,    \* Bound Names Set, per kind
  bindedEventInfo,     \* Bound Relay Entries, per kind: <<name, fn>>
  pendingEventsInfo,   \* pending entries, per kind: <<name, id>>
  buses,               \* the subscribers of the seven buses
  listened,            \* listenOnMouseMoveEvent has run
  destroyed,           \* destroy has returned
  lastCall             \* the last call: its operation, result and dispatches

binderVars == <<kernel, kernelListeners, domListeners, videoElement,
                videoExtendedNodes, mouseInVideo, bindedEventNames,
                bindedEventInfo, pendingEventsInfo, buses>>

vars == <<kernel, kernelListeners, domListeners, videoElement,
          videoExtendedNodes, mouseInVideo, bindedEventNames, bindedEventInfo,
          pendingEventsInfo, buses, listened, destroyed, lastCall>>

\* The state the operations below read and return; dispatched collects the
\* bus dispatches of the running call.
St == [kernel |-> kernel, kernelListeners |-> kernelListeners,
       domListeners |-> domListeners, videoElement |-> videoElement,
       videoExtendedNodes |-> videoExtendedNodes, mouseInVideo |-> mouseInVideo,
       bindedEventNames |-> bindedEventNames, bindedEventInfo |-> bindedEventInfo,
       pendingEventsInfo |-> pendingEventsInfo, buses |-> buses,
       dispatched |-> {}]

Commit(s) ==
  /\ kernel' = s.kernel
  /\ kernelListeners' = s.kernelListeners
  /\ domListeners' = s.domListeners
  /\ videoElement' = s.videoElement
  /\ videoExtendedNodes' = s.videoExtendedNodes
  /\ mouseInVideo' = s.mouseInVideo
  /\ bindedEventNames' = s.bindedEventNames
  /\ bindedEventInfo' = s.bindedEventInfo
  /\ pendingEventsInfo' = s.pendingEventsInfo
  /\ buses' = s.buses

\* ------------------------------------------------- the bus (./bus) per kind

busOn(s, target, id, name, fn, stage) ==
  [s EXCEPT !.buses = @ \cup {[target |-> target, name |-> name, stage |-> stage,
                               id |-> id, fn |-> fn, once |-> FALSE]}]

busOnce(s, target, id, name, fn, stage) ==
  [s EXCEPT !.buses = @ \cup {[target |-> target, name |-> name, stage |-> stage,
                               id |-> id, fn |-> fn, once |-> TRUE]}]

busOff(s, target, id, name, fn, stage) ==
  [s EXCEPT !.buses = {b \in @ : ~(/\ b.target = target /\ b.name = name
                                  /\ b.stage = stage /\ b.id = id /\ b.fn = fn)}]

\* isEmpty(this.buses[target].events[name])
busEventsEmpty(s, target, name) ==
  ~\E b \in s.buses : b.target = target /\ b.name = name

\* emit, emitSync, trigger and triggerSync of one bus: the subscribers of the
\* name receive the event, and those added by once are gone afterwards.
busDispatch(s, target, name, how, via) ==
  LET receivers == {b \in s.buses : b.target = target /\ b.name = name}
  IN [s EXCEPT
        !.dispatched = @ \cup {[target |-> target, name |-> name, how |-> how,
                                via |-> via,
                                to |-> {<<b.id, b.fn>> : b \in receivers}]},
        !.buses = {b \in @ : ~(b \in receivers /\ b.once)}]

\* ------------------------------------- listeners on DOM nodes and engines

addEvent(s, element, key, fn, passive) ==
  [s EXCEPT !.domListeners =
     @ \cup {[node |-> element, name |-> key, fn |-> fn, passive |-> passive]}]

removeEvent(s, node, name, fn) ==
  [s EXCEPT !.domListeners =
     {l \in @ : ~(l.node = node /\ l.name = name /\ l.fn = fn)}]

kernelOn(s, k, name, fn) ==
  [s EXCEPT !.kernelListeners = @ \cup {[src |-> k, name |-> name, fn |-> fn]}]

kernelOff(s, k, name, fn) ==
  [s EXCEPT !.kernelListeners =
     {l \in @ : ~(l.src = k /\ l.name = name /\ l.fn = fn)}]

_addEventOnDom(s, element, key, fn) ==
  IF key \in passiveEvents
  THEN addEvent(s, element, key, fn, TRUE)
  ELSE addEvent(s, element, key, fn, FALSE)

\* The closures the Binder creates.  A closure is known by what it captured
\* and by uid, which tells apart two closures that captured the same values.
LiveFns(s) ==
  {l.fn : l \in s.kernelListeners} \cup {l.fn : l \in s.domListeners}
  \cup UNION {{s.bindedEventInfo[k][i][2] : i \in 1..Len(s.bindedEventInfo[k])}
              : k \in Kinds}

NewUid(s, kind, target, name) ==
  LET used == {f.uid : f \in {g \in LiveFns(s) :
                 g.kind = kind /\ g.target = target /\ g.name = name}}
  IN CHOOSE u \in 1..(Cardinality(used) + 1) :
       u \notin used /\ \A w \in 1..(u - 1) : w \in used

NewFn(s, kind, target, name, id, how) ==
  [kind |-> kind, target |-> target, name |-> name, id |-> id, how |-> how,
   uid |-> NewUid(s, kind, target, name)]

_getTargetDom(s, target) ==
  IF target \in {"container", "wrapper"} THEN target ELSE s.videoElement

\* A variant without the whitelist exemption.
_isEventNeedToBeHandled_NoWhitelist(target, name) ==
  /\ target # "plugin"
  /\ target # "esFullscreen"

_isEventNeedToBeHandled(target, name) ==
  /\ target # "plugin"
  /\ target # "esFullscreen"
  /\ (IndexOf(mustListenVideoDomEvents, name) < 0 \/ target # "video")

addPendingEvent(s, target, name, id) ==
  [s EXCEPT !.pendingEventsInfo[target] = Append(@, <<name, id>>)]

\* nodes.forEach(node => this._addEventOnDom(node, key, fn))
forEach_addEventOnDom(s, nodes, key, fn) ==
  [s EXCEPT !.domListeners =
     @ \cup UNION {_addEventOnDom(s, node, key, fn).domListeners : node \in nodes}]

\* nodes.forEach(node => removeEvent(node, name, fn))
forEach_removeEvent(s, nodes, name, fn) ==
  [s EXCEPT !.domListeners =
     {l \in @ : \A node \in nodes : l \in removeEvent(s, node, name, fn).domListeners}]

\* The rest of _addEventListenerOnTarget, once the name is known to need a
\* relay that is not bound yet.
bindRelay(s, name, target, id) ==
  IF target = "kernel" /\ s.kernel = NoKernel
  THEN addPendingEvent(s, target, name, id)
  ELSE
    LET targetDom == _getTargetDom(s, target)
        fn == IF target = "kernel"
              THEN NewFn(s, "relay", target, name, "kernel", "triggerSync")
              ELSE IF target = "video"
              THEN NewFn(s, "relay", target, name, target, "trigger")
              ELSE NewFn(s, "relay", target, name, target, "triggerSync")
        s1 == IF target = "kernel" THEN kernelOn(s, s.kernel, name, fn)
              ELSE IF target \in {"container", "wrapper", "video"}
              THEN _addEventOnDom(s, targetDom, name, fn)
              ELSE _addEventOnDom(
                     forEach_addEventOnDom(s, s.videoExtendedNodes, name, fn),
                     targetDom, name, fn)
    IN [s1 EXCEPT !.bindedEventNames[target] = Append(@, name),
                  !.bindedEventInfo[target] = Append(@, <<name, fn>>)]

\* A slip: the relay is bound again although the name is bound already.
_addEventListenerOnTarget_Rebind(s, name, target, id) ==
  IF ~_isEventNeedToBeHandled(target, name) THEN s
  ELSE bindRelay(s, name, target, id)

_addEventListenerOnTarget(s, name, target, id) ==
  IF ~_isEventNeedToBeHandled(target, name) THEN s
  ELSE IF IndexOf(s.bindedEventNames[target], name) > -1 THEN s
  ELSE bindRelay(s, name, target, id)

\* The first entry of bindedEventInfoList whose name is `name`: its 0-based
\* index, or the length of the list when the loop runs to its end.
FindInfoIndex(list, name) ==
  IF \E i \in 1..Len(list) : list[i][1] = name
  THEN (CHOOSE i \in 1..Len(list) :
          list[i][1] = name /\ \A j \in 1..(i - 1) : list[j][1] # name) - 1
  ELSE Len(list)

\* The tail of _removeEventListenerOnTargetWhenIsUseless: take the recorded
\* relay of `name` off its source and drop the name from both lists.
unbindRelay(s, name, target) ==
  LET eventNamesList == s.bindedEventNames[target]
      nameIndex == IndexOf(eventNamesList, name)
      bindedEventInfoList == s.bindedEventInfo[target]
      index == FindInfoIndex(bindedEventInfoList, name)
  IN IF index >= Len(bindedEventInfoList) THEN s  \* fn is undefined
     ELSE
       LET fn == bindedEventInfoList[index + 1][2]
           targetDom == _getTargetDom(s, target)
           s1 == IF target = "kernel" THEN kernelOff(s, s.kernel, name, fn)
                 ELSE IF target = "video-dom"
                 THEN forEach_removeEvent(removeEvent(s, targetDom, name, fn),
                                          s.videoExtendedNodes, name, fn)
                 ELSE removeEvent(s, targetDom, name, fn)
       IN [s1 EXCEPT
             !.bindedEventInfo[target] = Splice1(bindedEventInfoList, index),
             !.bindedEventNames[target] = Splice1(eventNamesList, nameIndex)]

\* A variant that does not ask the bus whether a subscriber is left.
_removeEventListenerOnTargetWhenIsUseless_Eager(s, name, target) ==
  IF ~_isEventNeedToBeHandled(target, name) THEN s
  ELSE IF IndexOf(s.bindedEventNames[target], name) < 0 THEN s
  ELSE unbindRelay(s, name, target)

_removeEventListenerOnTargetWhenIsUseless(s, name, target) ==
  IF ~_isEventNeedToBeHandled(target, name) THEN s
  ELSE IF IndexOf(s.bindedEventNames[target], name) < 0 THEN s
  ELSE IF ~busEventsEmpty(s, target, name) THEN s
  ELSE unbindRelay(s, name, target)

\* ------------------------------------------------ subscribe, unsubscribe

on(s, info) ==
  LET p == prettifyEventParameter(info)
  IN IF p.threw THEN [st |-> s, ret |-> "threw"]
     ELSE [st |-> busOn(_addEventListenerOnTarget(s, p.name, p.target, p.id),
                        p.target, p.id, p.name, p.fn, p.stage),
           ret |-> "bus"]

off(s, info) ==
  LET p == prettifyEventParameter(info)
  IN IF p.threw THEN [st |-> s, ret |-> "threw"]
     ELSE [st |-> _removeEventListenerOnTargetWhenIsUseless(
                    busOff(s, p.target, p.id, p.name, p.fn, p.stage),
                    p.name, p.target),
           ret |-> "bus"]

once(s, info) ==
  LET p == prettifyEventParameter(info)
  IN IF p.threw THEN [st |-> s, ret |-> "threw"]
     ELSE [st |-> busOnce(s, p.target, p.id, p.name, p.fn, p.stage),
           ret |-> "bus"]

\* ------------------------------------------------------------------- emit

\* emit({target, name}, ...args) under @runnable(isEventEmitalbe) and
\* @before(checkEventEmitParameter); `backup` is what a refused call returns.
emitVia(s, info, how, backup, via) ==
  IF ~isEventEmitalbe(info) THEN [st |-> s, ret |-> backup]
  ELSE LET checked == checkEventEmitParameter(info)
       IN [st |-> busDispatch(s, checked.target, checked.name.val, how, via),
           ret |-> "bus"]

\* Who made a dispatch: a caller of the emit family, or a relay closure.
Caller == [kind |-> "caller"]

emit(s, info) == emitVia(s, info, "emit", "undefined", Caller)

emitSync(s, info) == emitVia(s, info, "emitSync", "false", Caller)

trigger(s, info) == emitVia(s, info, "trigger", "undefined", Caller)

triggerSync(s, info) == emitVia(s, info, "triggerSync", "false", Caller)

\* ------------------------------------------------------ the relays, called

RelayInfo(fn) ==
  [name |-> Str(fn.name), target |-> fn.target, stage |-> Absent,
   id |-> Str(<<fn.id>>), fn |-> Undef]

\* dom.isNodeInsideVideo(node)
isNodeInsideVideo(s, node) ==
  node = s.videoElement \/ node \in s.videoExtendedNodes

\* A native event as the listeners see it: its type, the node the listener is
\* on, and the element the pointer goes to (toElement || relatedTarget).
NativeEvent(type, currentTarget, to) ==
  [type |-> type, currentTarget |-> currentTarget, to |-> to]

\* A variant of the closure that does not look where the pointer goes.
fusedRelay_AnyLeave(s, fn, evt) ==
  IF s.mouseInVideo /\ evt.type = <<"mouseleave">>
  THEN emitVia([s EXCEPT !.mouseInVideo = FALSE], RelayInfo(fn),
               "triggerSync", "false", fn).st
  ELSE IF ~s.mouseInVideo /\ evt.type = <<"mouseenter">>
          /\ isNodeInsideVideo(s, evt.currentTarget)
  THEN emitVia([s EXCEPT !.mouseInVideo = TRUE], RelayInfo(fn),
               "triggerSync", "false", fn).st
  ELSE s

\* The closure of listenOnMouseMoveEvent, called with a native event.
fusedRelay(s, fn, evt) ==
  IF s.mouseInVideo /\ evt.type = <<"mouseleave">> /\ ~isNodeInsideVideo(s, evt.to)
  THEN emitVia([s EXCEPT !.mouseInVideo = FALSE], RelayInfo(fn),
               "triggerSync", "false", fn).st
  ELSE IF ~s.mouseInVideo /\ evt.type = <<"mouseenter">>
          /\ isNodeInsideVideo(s, evt.currentTarget)
  THEN emitVia([s EXCEPT !.mouseInVideo = TRUE], RelayInfo(fn),
               "triggerSync", "false", fn).st
  ELSE s

\* The closures of _addEventListenerOnTarget, called with a native event.
plainRelay(s, fn) ==
  IF fn.how = "trigger"
  THEN emitVia(s, RelayInfo(fn), "trigger", "undefined", fn).st
  ELSE emitVia(s, RelayInfo(fn), "triggerSync", "false", fn).st

callFn(s, fn, evt) ==
  IF fn.kind = "fused" THEN fusedRelay(s, fn, evt) ELSE plainRelay(s, fn)

\* The listeners of one source and one event type, called one after another.
RECURSIVE callAll(_, _, _)
callAll(s, fns, evt) ==
  IF fns = {} THEN s
  ELSE LET fn == CHOOSE f \in fns : TRUE
       IN callAll(callFn(s, fn, evt), fns \ {fn}, evt)

\* ------------------------------------------------------ replay, migration

\* list.forEach(([name, fn]) => remove ? removeEvent(node, name, fn)
\*                                     : this._addEventOnDom(node, name, fn))
replayOnNode(s, list, node, remove) ==
  IF remove
  THEN [s EXCEPT !.domListeners =
          {l \in @ : \A i \in 1..Len(list) :
             l \in removeEvent(s, node, list[i][1], list[i][2]).domListeners}]
  ELSE [s EXCEPT !.domListeners =
          @ \cup UNION {_addEventOnDom(s, node, list[i][1], list[i][2]).domListeners
                          : i \in 1..Len(list)}]

\* A variant that leaves an extended node as it is.
bindEventOnPenetrateNode_Never(s, node, remove) == s

bindEventOnPenetrateNode(s, node, remove) ==
  replayOnNode(s, s.bindedEventInfo["video-dom"], node, remove)

\* A variant that replays the video-dom relays only.
bindEventOnVideo_DomOnly(s, node, remove) ==
  replayOnNode(s, s.bindedEventInfo["video-dom"], node, remove)

bindEventOnVideo(s, node, remove) ==
  replayOnNode(s, s.bindedEventInfo["video-dom"] \o s.bindedEventInfo["video"],
               node, remove)

FusedFn(s, name) ==
  NewFn(s, "fused", "video-dom", name, "_vm", "triggerSync")

RECURSIVE listenOnMouseMoveEventFrom(_, _, _)
listenOnMouseMoveEventFrom(s, node, i) ==
  IF i > Len(mustListenVideoDomEvents) THEN s
  ELSE
    LET name == mustListenVideoDomEvents[i]
        target == "video-dom"
        fn == FusedFn(s, name)
        s1 == _addEventOnDom(s, node, name, fn)
        s2 == IF IndexOf(s1.bindedEventNames[target], name) < 0
              THEN [s1 EXCEPT !.bindedEventNames[target] = Append(@, name),
                              !.bindedEventInfo[target] = Append(@, <<name, fn>>)]
              ELSE s1
    IN listenOnMouseMoveEventFrom(s2, node, i + 1)

listenOnMouseMoveEvent(s, node) == listenOnMouseMoveEventFrom(s, node, 1)

\* A variant that attaches to the new engine and leaves the old one alone.
migrateKernelEvent_KeepOld(s, oldKernel, newKernel) ==
  LET list == s.bindedEventInfo["kernel"]
  IN [s EXCEPT !.kernelListeners =
        @ \cup {[src |-> newKernel, name |-> list[i][1], fn |-> list[i][2]]
                  : i \in 1..Len(list)}]

migrateKernelEvent(s, oldKernel, newKernel) ==
  LET list == s.bindedEventInfo["kernel"]
      offOld == {l \in s.kernelListeners :
                   ~\E i \in 1..Len(list) :
                      l.src = oldKernel /\ l.name = list[i][1] /\ l.fn = list[i][2]}
  IN [s EXCEPT !.kernelListeners =
        offOld \cup {[src |-> newKernel, name |-> list[i][1], fn |-> list[i][2]]
                       : i \in 1..Len(list)}]

\* --------------------------------------------------------------- teardown

\* A variant of the round that forgets the extended nodes.
destroyKind_PrimaryOnly(s, target) ==
  LET list == s.bindedEventInfo[target]
      targetDom == _getTargetDom(s, target)
      s1 == IF target = "kernel"
            THEN [s EXCEPT !.kernelListeners =
                    {l \in @ : ~\E i \in 1..Len(list) :
                       l.src = s.kernel /\ l.name = list[i][1] /\ l.fn = list[i][2]}]
            ELSE [s EXCEPT !.domListeners =
                    {l \in @ : ~\E i \in 1..Len(list) :
                       l.node = targetDom /\ l.name = list[i][1] /\ l.fn = list[i][2]}]
  IN [s1 EXCEPT !.bindedEventInfo["kernel"] = <<>>,
                !.bindedEventNames["kernel"] = <<>>]

\* One round of destroy's loop over this.kinds.
destroyKind(s, target) ==
  LET list == s.bindedEventInfo[target]
      targetDom == _getTargetDom(s, target)
      nodes == IF target = "video-dom" THEN {targetDom} \cup s.videoExtendedNodes
               ELSE {targetDom}
      s1 == IF target = "kernel"
            THEN [s EXCEPT !.kernelListeners =
                    {l \in @ : ~\E i \in 1..Len(list) :
                       l.src = s.kernel /\ l.name = list[i][1] /\ l.fn = list[i][2]}]
            ELSE [s EXCEPT !.domListeners =
                    {l \in @ : ~\E i \in 1..Len(list) :
                       l.node \in nodes /\ l.name = list[i][1] /\ l.fn = list[i][2]}]
  IN [s1 EXCEPT !.bindedEventInfo["kernel"] = <<>>,
                !.bindedEventNames["kernel"] = <<>>]

RECURSIVE destroyFrom(_, _)
destroyFrom(s, i) ==
  IF i > Len(kinds) THEN s ELSE destroyFrom(destroyKind(s, kinds[i]), i + 1)

destroy(s) == destroyFrom(s, 1)

\* ---------------------------------------------------------- pending queue

\* A variant that empties the copy without binding anything.
drainPending_Drop(s, pendingEventsCopy, target) == s

\* A variant that takes the entries from the front of the copy.
RECURSIVE drainPending_Shift(_, _, _)
drainPending_Shift(s, pendingEventsCopy, target) ==
  IF Len(pendingEventsCopy) = 0 THEN s
  ELSE LET first == pendingEventsCopy[1]
       IN drainPending_Shift(_addEventListenerOnTarget(s, first[1], target, first[2]),
                             Tail(pendingEventsCopy), target)

RECURSIVE drainPending(_, _, _)
drainPending(s, pendingEventsCopy, target) ==
  IF Len(pendingEventsCopy) = 0 THEN s
  ELSE LET last == pendingEventsCopy[Len(pendingEventsCopy)]
       IN drainPending(_addEventListenerOnTarget(s, last[1], target, last[2]),
                       SubSeq(pendingEventsCopy, 1, Len(pendingEventsCopy) - 1),
                       target)

\* A variant that drains a copy and leaves the list as it is.
applyPendingEvents_NoSplice(s, target) ==
  drainPending(s, s.pendingEventsInfo[target], target)

applyPendingEvents(s, target) ==
  LET pendingEventsCopy == s.pendingEventsInfo[target]
  IN drainPending([s EXCEPT !.pendingEventsInfo[target] = <<>>],
                  pendingEventsCopy, target)

\* ------------------------------------------------------------------ bounds

\* Subscribers on all buses together, and entries in one pending queue.
MaxSubs == 2

MaxPending == 2

\* ------------------------------------------------------------------ inputs

Raw(name, target, stage, id, fn) ==
  [name |-> name, target |-> target, stage |-> stage, id |-> id, fn |-> fn]

P1 == Str(<<"p1">>)

P2 == Str(<<"p2">>)

H1 == Fun("h1")

Outside == "outside"

\* Raw subscription requests for every key of `keys` (a raw name and a
\* target, which may be Absent), every id and every handler.
SubInfos(keys, ids, fns) ==
  {Raw(k[1], k[2], Absent, id, fn) : k \in keys, id \in ids, fn \in fns}

\* ----------------------------------------------------------------- actions

\* What a call leaves in lastCall: the operation, what it returned, the
\* dispatches it made and the native listeners it attached and detached.
Listeners(s) ==
  {<<l.src, l.name, l.fn>> : l \in s.kernelListeners}
  \cup {<<l.node, l.name, l.fn>> : l \in s.domListeners}

Call(op, ret, s) ==
  [op |-> op, ret |-> ret, dispatched |-> s.dispatched,
   attached |-> Listeners(s) \ Listeners(St),
   detached |-> Listeners(St) \ Listeners(s)]

WithinBounds(s) ==
  /\ Cardinality(s.buses) <= MaxSubs
  /\ \A k \in Kinds : Len(s.pendingEventsInfo[k]) <= MaxPending

Init ==
  /\ kernel = NoKernel
  /\ kernelListeners = {}
  /\ domListeners = {}
  /\ videoElement = "v1"
  /\ videoExtendedNodes = {}
  /\ mouseInVideo = FALSE
  /\ bindedEventNames = [k \in Kinds |-> <<>>]
  /\ bindedEventInfo = [k \in Kinds |-> <<>>]
  /\ pendingEventsInfo = [k \in Kinds |-> <<>>]
  /\ buses = {}
  /\ listened = FALSE
  /\ destroyed = FALSE
  /\ lastCall = [op |-> "constructor", ret |-> "void", dispatched |-> {},
                 attached |-> {}, detached |-> {}]

On(info) ==
  /\ ~destroyed
  /\ \E r \in {on(St, info)} :
        /\ WithinBounds(r.st)
        /\ Commit(r.st)
        /\ lastCall' = Call("on", r.ret, r.st)
  /\ UNCHANGED <<listened, destroyed>>

Off(info) ==
  /\ ~destroyed
  /\ \E r \in {off(St, info)} :
        /\ Commit(r.st)
        /\ lastCall' = Call("off", r.ret, r.st)
  /\ UNCHANGED <<listened, destroyed>>

Once(info) ==
  /\ ~destroyed
  /\ \E r \in {once(St, info)} :
        /\ WithinBounds(r.st)
        /\ Commit(r.st)
        /\ lastCall' = Call("once", r.ret, r.st)
  /\ UNCHANGED <<listened, destroyed>>

Emit(info) ==
  /\ ~destroyed
  /\ \E r \in {emit(St, info)} :
        Commit(r.st) /\ lastCall' = Call("emit", r.ret, r.st)
  /\ UNCHANGED <<listened, destroyed>>

EmitSync(info) ==
  /\ ~destroyed
  /\ \E r \in {emitSync(St, info)} :
        Commit(r.st) /\ lastCall' = Call("emitSync", r.ret, r.st)
  /\ UNCHANGED <<listened, destroyed>>

Trigger(info) ==
  /\ ~destroyed
  /\ \E r \in {trigger(St, info)} :
        Commit(r.st) /\ lastCall' = Call("trigger", r.ret, r.st)
  /\ UNCHANGED <<listened, destroyed>>

TriggerSync(info) ==
  /\ ~destroyed
  /\ \E r \in {triggerSync(St, info)} :
        Commit(r.st) /\ lastCall' = Call("triggerSync", r.ret, r.st)
  /\ UNCHANGED <<listened, destroyed>>

ApplyPendingEvents(target) ==
  /\ ~destroyed
  /\ \E s \in {applyPendingEvents(St, target)} :
        Commit(s) /\ lastCall' = Call("applyPendingEvents", "void", s)
  /\ UNCHANGED <<listened, destroyed>>

\* The dispatcher listens once, on its video node, before anything subscribes.
ListenOnMouseMoveEvent ==
  /\ ~destroyed
  /\ ~listened
  /\ buses = {}
  /\ \A k \in Kinds : bindedEventNames[k] = <<>> /\ pendingEventsInfo[k] = <<>>
  /\ \E s \in {listenOnMouseMoveEvent(St, videoElement)} :
        Commit(s)
        /\ lastCall' = Call("listenOnMouseMoveEvent", "void", s)
  /\ listened' = TRUE
  /\ UNCHANGED destroyed

\* The dispatcher creates its first media engine.
CreateKernel(k) ==
  /\ ~destroyed
  /\ kernel = NoKernel
  /\ Commit([St EXCEPT !.kernel = k])
  /\ lastCall' = Call("createKernel", "void", St)
  /\ UNCHANGED <<listened, destroyed>>

\* The dispatcher switches to a new media engine: it migrates the relays from
\* the engine it has to the one it made, which then becomes its engine.
MigrateKernelEvent(newKernel) ==
  /\ ~destroyed
  /\ kernel # NoKernel
  /\ newKernel # kernel
  /\ \E s \in {migrateKernelEvent(St, kernel, newKernel)} :
        /\ Commit([s EXCEPT !.kernel = newKernel])
        /\ lastCall' = Call("migrateKernelEvent", "void", s)
  /\ UNCHANGED <<listened, destroyed>>

\* The dom registers (remove = FALSE) or unregisters (remove = TRUE) an
\* extended node and replays the video-dom relays on it.
BindEventOnPenetrateNode(node, remove) ==
  /\ ~destroyed
  /\ IF remove THEN node \in videoExtendedNodes ELSE node \notin videoExtendedNodes
  /\ \E s \in {bindEventOnPenetrateNode(St, node, remove)} :
        /\ Commit([s EXCEPT !.videoExtendedNodes =
                     IF remove THEN @ \ {node} ELSE @ \cup {node}])
        /\ lastCall' = Call("bindEventOnPenetrateNode", "void", s)
  /\ UNCHANGED <<listened, destroyed>>

Destroy ==
  /\ ~destroyed
  /\ \E s \in {destroy(St)} :
        Commit(s) /\ lastCall' = Call("destroy", "void", s)
  /\ destroyed' = TRUE
  /\ UNCHANGED listened

\* A media engine raises an event: its listeners for the name are called.
KernelEvent(k, name) ==
  /\ ~destroyed
  /\ \E fns \in {{l.fn : l \in {x \in kernelListeners : x.src = k /\ x.name = name}}} :
        /\ fns # {}
        /\ \E s \in {callAll(St, fns, NativeEvent(name, k, Outside))} :
              Commit(s) /\ lastCall' = Call("kernelEvent", "void", s)
  /\ UNCHANGED <<listened, destroyed>>

\* A DOM node receives an event: its listeners for the type are called.
DomEvent(node, type, to) ==
  /\ ~destroyed
  /\ \E fns \in {{l.fn : l \in {x \in domListeners : x.node = node /\ x.name = type}}} :
        /\ fns # {}
        /\ \E s \in {callAll(St, fns, NativeEvent(type, node, to))} :
              Commit(s) /\ lastCall' = Call("domEvent", "void", s)
  /\ UNCHANGED <<listened, destroyed>>

\* ------------------------------------------- the relay lifecycle, all kinds

\* One name per kind that has a physical source.
LifeKeys ==
  {<<Str(<<"heartbeat">>), Absent>>,
   <<Str(<<"c_", "click">>), Absent>>,
   <<Str(<<"w_", "click">>), Absent>>,
   <<Str(<<"play">>), Absent>>,
   <<Str(<<"click">>), Absent>>}

OnceKeys == {<<Str(<<"heartbeat">>), Absent>>, <<Str(<<"click">>), Absent>>}

\* The names above and one that no table knows, which goes to plugin.
AllKeys == LifeKeys \cup {<<Str(<<"ready">>), Absent>>}

Next ==
  \/ \E info \in SubInfos(AllKeys, {P1, P2}, {H1}) : On(info)
  \/ \E info \in SubInfos(AllKeys, {P1, P2}, {H1}) : Off(info)
  \/ \E info \in SubInfos(OnceKeys, {P1}, {H1}) : Once(info)
  \/ \E target \in {"kernel", "video-dom"} : ApplyPendingEvents(target)
  \/ CreateKernel("k1")

Spec == Init /\ [][Next]_vars

\* ------------------------------------------------------------------- C1

HandledKinds == {"kernel", "container", "wrapper", "video", "video-dom"}

BoundNames(k) == {bindedEventNames[k][i] : i \in 1..Len(bindedEventNames[k])}

InfoNames(k) == {bindedEventInfo[k][i][1] : i \in 1..Len(bindedEventInfo[k])}

NamesInUse ==
  {b.name : b \in buses} \cup {l.name : l \in kernelListeners}
  \cup {l.name : l \in domListeners}
  \cup UNION {BoundNames(k) \cup InfoNames(k) : k \in Kinds}

\* The relays of (t, n) that are attached to the physical source of t: the
\* media engine for kernel, the DOM node of t otherwise.
RelaysOnSource(t, n) ==
  IF t = "kernel"
  THEN {l.fn : l \in {x \in kernelListeners :
                        x.src = kernel /\ x.name = n /\ x.fn.target = t}}
  ELSE {l.fn : l \in {x \in domListeners :
                        x.node = _getTargetDom(St, t) /\ x.name = n /\ x.fn.target = t}}

EntryCount(t, n) ==
  Cardinality({i \in 1..Len(bindedEventInfo[t]) : bindedEventInfo[t][i][1] = n})

NameCount(t, n) ==
  Cardinality({i \in 1..Len(bindedEventNames[t]) : bindedEventNames[t][i] = n})

Subscribers(t, n) == {b \in buses : b.target = t /\ b.name = n}

\* on() was called by two different ids for (t, n), and both are subscribed.
TwoOnSubscribers(t, n) ==
  \E b1, b2 \in Subscribers(t, n) : ~b1.once /\ ~b2.once /\ b1.id # b2.id

PendingNames(k) == {pendingEventsInfo[k][i][1] : i \in 1..Len(pendingEventsInfo[k])}

\* The physical source of (t, n) is there: a relay is needed for it, and for
\* kernel the media engine is attached and the name is not waiting in the queue.
SourceReady(t, n) ==
  /\ _isEventNeedToBeHandled(t, n)
  /\ t = "kernel" => (kernel # NoKernel /\ n \notin PendingNames("kernel"))

AtMostOneRelay(t, n) ==
  /\ Cardinality(RelaysOnSource(t, n)) <= 1
  /\ EntryCount(t, n) <= 1
  /\ NameCount(t, n) <= 1

\* C1 as stated: for every target kind and name at most one native relay is
\* attached and at most one entry is kept, and two on() subscribers of
\* different ids on (target, name) go with exactly one native listener.
C1_Original ==
  ~destroyed =>
    \A t \in Kinds, n \in NamesInUse :
      /\ AtMostOneRelay(t, n)
      /\ TwoOnSubscribers(t, n) => Cardinality(RelaysOnSource(t, n)) = 1

\* C1, amended: at most one native relay and one entry per (target, name); two
\* on() subscribers of different ids on (target, name) go with exactly one
\* native listener and one entry when the physical source is there, and with
\* no native listener when no relay is needed or the media engine is absent.
C1_AtMostOneRelay ==
  ~destroyed =>
    \A t \in Kinds, n \in NamesInUse :
      /\ AtMostOneRelay(t, n)
      /\ TwoOnSubscribers(t, n) =>
           /\ SourceReady(t, n) =>
                Cardinality(RelaysOnSource(t, n)) = 1 /\ EntryCount(t, n) = 1
           /\ (~_isEventNeedToBeHandled(t, n) \/ (t = "kernel" /\ kernel = NoKernel))
                => RelaysOnSource(t, n) = {} /\ EntryCount(t, n) = 0

\* Two ids subscribed by on() to one video-dom name: the second on() attached
\* nothing and the name has one native listener.
C1_Witness ==
  /\ TwoOnSubscribers("video-dom", <<"click">>)
  /\ Cardinality(RelaysOnSource("video-dom", <<"click">>)) = 1
  /\ lastCall.op = "on"
  /\ lastCall.attached = {}

\* ------------------------------------------------------------------- C2

\* Subscriptions coming and going on all five relayed kinds, with the media
\* engine arriving at some point.
OffInfos ==
  SubInfos(OnceKeys, {P1, P2}, {H1}) \cup SubInfos(LifeKeys \ OnceKeys, {P1}, {H1})

NextOff ==
  \/ \E info \in OffInfos : On(info)
  \/ \E info \in OffInfos : Off(info)
  \/ \E info \in SubInfos({<<Str(<<"click">>), Absent>>}, {P1}, {H1}) : Once(info)
  \/ CreateKernel("k1")

SpecOff == Init /\ [][NextOff]_vars

NativeAndBookkeeping == <<kernelListeners, domListeners, bindedEventNames, bindedEventInfo>>

\* The relay functions recorded for (t, n).
RecordedRelays(t, n) ==
  {bindedEventInfo[t][i][2] :
     i \in {j \in 1..Len(bindedEventInfo[t]) : bindedEventInfo[t][j][1] = n}}

AttachedFns == {l.fn : l \in kernelListeners} \cup {l.fn : l \in domListeners}

\* What a returning off() for (t, n) does to the native side.
OffEffect(t, n) ==
  IF t \in HandledKinds /\ n \in BoundNames(t)
  THEN IF Subscribers(t, n)' = {}
       THEN /\ RecordedRelays(t, n) # {}
            /\ RecordedRelays(t, n) \cap AttachedFns' = {}
            /\ \A x \in lastCall'.detached : x[3] \in RecordedRelays(t, n)
            /\ lastCall'.detached # {}
            /\ lastCall'.attached = {}
            /\ n \notin BoundNames(t)'
            /\ n \notin InfoNames(t)'
            /\ \A k \in Kinds \ {t} :
                 /\ bindedEventNames'[k] = bindedEventNames[k]
                 /\ bindedEventInfo'[k] = bindedEventInfo[k]
       ELSE UNCHANGED NativeAndBookkeeping
  ELSE UNCHANGED NativeAndBookkeeping

\* C2: an off() for a bound (target, name) after which the target's Bus has no
\* subscriber of the name detaches the relay from its physical source and
\* removes the name from the relay entries and the bound names; an off() that
\* leaves a subscriber, or whose (target, name) was never bound, changes no
\* native listener and no bookkeeping.
C2_OffTeardown ==
  [][\A info \in OffInfos :
       (lastCall'.op = "off" /\ Off(info)) =>
         OffEffect(prettifyEventParameter(info).target,
                   prettifyEventParameter(info).name)]_vars

\* The last subscriber of a kernel name has just been taken off: the relay
\* left the media engine and the name is no longer bound.
C2_Witness ==
  /\ lastCall.op = "off"
  /\ lastCall.ret = "bus"
  /\ \E x \in lastCall.detached : x[1] = kernel /\ x[2] = <<"heartbeat">>
  /\ <<"heartbeat">> \notin BoundNames("kernel")
  /\ Subscribers("kernel", <<"heartbeat">>) = {}

\* An off() that left a subscriber behind: the relay of the name stays.
C2_WitnessKept ==
  /\ lastCall.op = "off"
  /\ lastCall.detached = {}
  /\ Subscribers("video-dom", <<"click">>) # {}
  /\ Cardinality(RelaysOnSource("video-dom", <<"click">>)) = 1

\* --------------------------------------------------------------- C3, C4

KernelKeys == {<<Str(<<"heartbeat">>), Absent>>, <<Str(<<"error">>), Absent>>}

KernelInfos == SubInfos(KernelKeys, {P1, P2}, {H1})

\* Kernel subscriptions before and after the media engine arrives, the flush
\* of the queue, the switch to another engine, and the engines' events.
NextKernel ==
  \/ \E info \in KernelInfos : On(info)
  \/ \E info \in KernelInfos : Off(info)
  \/ CreateKernel("k1")
  \/ ApplyPendingEvents("kernel")
  \/ \E k \in KernelObjs : MigrateKernelEvent(k)
  \/ \E k \in KernelObjs, name \in {<<"heartbeat">>, <<"error">>} : KernelEvent(k, name)

SpecKernel == Init /\ [][NextKernel]_vars

ListenersOn(k, n) == {l \in kernelListeners : l.src = k /\ l.name = n}

\* on() for a kernel name while the media engine is absent.
OnWhileAbsent(info) ==
  LET p == prettifyEventParameter(info)
  IN /\ lastCall'.attached = {}
     /\ kernelListeners' = {}
     /\ bindedEventInfo' = bindedEventInfo
     /\ bindedEventNames' = bindedEventNames
     /\ pendingEventsInfo'["kernel"] =
          Append(pendingEventsInfo["kernel"], <<p.name, p.id>>)
     /\ \E b \in buses' : b.target = "kernel" /\ b.name = p.name /\ b.id = p.id
     /\ buses \subseteq buses'

\* applyPendingEvents('kernel') with the media engine attached.
FlushedOnEngine ==
  /\ pendingEventsInfo'["kernel"] = <<>>
  /\ \A n \in PendingNames("kernel") :
       /\ Cardinality(ListenersOn(kernel, n)') = 1
       /\ EntryCount("kernel", n)' = 1

\* C3: while the media engine is absent the kernel side has no native listener
\* and no relay bookkeeping, and on() for a kernel name only queues a pending
\* entry and registers the subscriber; applyPendingEvents('kernel') with the
\* engine attached leaves exactly one native listener on the engine for each
\* queued name.
C3_PendingFlush ==
  /\ [](kernel = NoKernel =>
          /\ kernelListeners = {}
          /\ bindedEventInfo["kernel"] = <<>>
          /\ bindedEventNames["kernel"] = <<>>)
  /\ [][/\ \A info \in KernelInfos :
             (kernel = NoKernel /\ lastCall'.op = "on" /\ On(info)) => OnWhileAbsent(info)
        /\ (kernel # NoKernel /\ lastCall'.op = "applyPendingEvents"
            /\ ApplyPendingEvents("kernel")) => FlushedOnEngine]_vars

\* Two ids queued the same name while the engine was absent; the flush on the
\* attached engine bound one relay for it.
C3_Witness ==
  /\ lastCall.op = "applyPendingEvents"
  /\ kernel # NoKernel
  /\ TwoOnSubscribers("kernel", <<"heartbeat">>)
  /\ \E x \in lastCall.attached : x[1] = kernel /\ x[2] = <<"heartbeat">>
  /\ Cardinality(ListenersOn(kernel, <<"heartbeat">>)) = 1
  /\ pendingEventsInfo["kernel"] = <<>>

\* The subscribers a kernel event of name n raised on engine k reaches in
\* state s: one set of (id, handler) per dispatch made by the listeners of k.
ReachedFrom(s, k, n) ==
  {d.to : d \in callAll(s, {l.fn : l \in {x \in s.kernelListeners :
                                           x.src = k /\ x.name = n}},
                        NativeEvent(n, k, Outside)).dispatched}

KernelSubscribers(n) == {<<b.id, b.fn>> : b \in Subscribers("kernel", n)}

Migrated(old, new) ==
  \E after \in {St'} :
    /\ \A i \in 1..Len(bindedEventInfo["kernel"]) :
         LET name == bindedEventInfo["kernel"][i][1]
             fn == bindedEventInfo["kernel"][i][2]
         IN /\ [src |-> old, name |-> name, fn |-> fn] \in kernelListeners
            /\ [src |-> new, name |-> name, fn |-> fn] \in after.kernelListeners
            /\ [src |-> old, name |-> name, fn |-> fn] \notin after.kernelListeners
            /\ ReachedFrom(after, new, name) = {KernelSubscribers(name)}
            /\ ReachedFrom(after, old, name) = {}
    /\ \A n \in {<<"heartbeat">>, <<"error">>} \ BoundNames("kernel") :
         ReachedFrom(after, new, n) = {} /\ ReachedFrom(after, old, n) = {}
    /\ UNCHANGED <<buses, bindedEventInfo, bindedEventNames, pendingEventsInfo, domListeners>>

\* C4: migrateKernelEvent(old, new) moves every bound kernel relay, the same
\* function, from old to new: an event on new reaches the subscribers the
\* kernel Bus had before, an event on old reaches none, and the subscribers,
\* the relay bookkeeping and the pending queues stay as they were.
C4_Migration ==
  [][\A old, new \in KernelObjs :
       (kernel = old /\ lastCall'.op = "migrateKernelEvent" /\ MigrateKernelEvent(new))
         => Migrated(old, new)]_vars

\* A migration that moved a relay which has a subscriber.
C4_Witness ==
  /\ lastCall.op = "migrateKernelEvent"
  /\ kernel = "k2"
  /\ \E x \in lastCall.attached : x[1] = "k2" /\ x[2] = <<"heartbeat">>
  /\ \E x \in lastCall.detached : x[1] = "k1" /\ x[2] = <<"heartbeat">>
  /\ Subscribers("kernel", <<"heartbeat">>) # {}

\* --------------------------------------------------------------- C5, C6

ErrKeys == {<<Str(<<"heartbeat">>), Absent>>, <<Str(<<"click">>), Absent>>}

\* Values that are no function.
NotCallable == {Undef, Str(<<"h1">>), Num}

ErrInfos == SubInfos(ErrKeys, {P1}, {H1} \cup NotCallable)

BadHandlerInfos == SubInfos(ErrKeys, {P1}, NotCallable)

\* Emit descriptors an emitter may pass.
LegalEmits ==
  {Raw(Str(n), Absent, Absent, P1, Undef) : n \in {<<"click">>, <<"heartbeat">>}}

\* Descriptors with a name that is missing, empty, no string or starts with
\* before/after/_, and descriptors with an id that is missing, empty or no
\* string.
IllegalEmits ==
  {Raw(n, Absent, Absent, P1, Undef) :
     n \in {Undef, Str(<<>>), Num, Str(<<"before", "Play">>),
            Str(<<"after", "Play">>), Str(<<"_", "click">>)}}
  \cup {Raw(Str(<<"click">>), Absent, Absent, id, Undef) :
          id \in {Undef, Str(<<>>), Num}}

\* Subscriptions with and without a callable handler, and emits with and
\* without a legal descriptor.
NextErr ==
  \/ \E info \in ErrInfos : On(info)
  \/ \E info \in ErrInfos : Off(info)
  \/ \E info \in ErrInfos : Once(info)
  \/ \E info \in LegalEmits \cup IllegalEmits : Emit(info)
  \/ \E info \in LegalEmits \cup IllegalEmits : EmitSync(info)
  \/ \E info \in LegalEmits \cup IllegalEmits : Trigger(info)
  \/ \E info \in LegalEmits \cup IllegalEmits : TriggerSync(info)
  \/ CreateKernel("k1")

SpecErr == Init /\ [][NextErr]_vars

EmitOps == {"emit", "emitSync", "trigger", "triggerSync"}

Refused ==
  /\ lastCall'.ret \in {"undefined", "false"}
  /\ lastCall'.dispatched = {}
  /\ lastCall'.attached = {}
  /\ lastCall'.detached = {}
  /\ UNCHANGED binderVars

\* C5: emit, emitSync, trigger and triggerSync with an invalid descriptor
\* return undefined or false without throwing, dispatch on no Bus and leave
\* subscribers, relay bookkeeping, pending queues and native listeners alone.
C5_InvalidEmit ==
  [][\A info \in IllegalEmits :
       (/\ lastCall'.op \in EmitOps
        /\ \/ Emit(info)
           \/ EmitSync(info)
           \/ Trigger(info)
           \/ TriggerSync(info)) => Refused]_vars

\* emitSync was refused while a subscriber was waiting for the name.
C5_Witness ==
  /\ lastCall.op = "emitSync"
  /\ lastCall.ret = "false"
  /\ lastCall.dispatched = {}
  /\ Subscribers("video-dom", <<"click">>) # {}

Thrown ==
  /\ lastCall'.ret = "threw"
  /\ lastCall'.dispatched = {}
  /\ lastCall'.attached = {}
  /\ lastCall'.detached = {}
  /\ UNCHANGED binderVars

\* C6: on, off and once with a handler that is not callable throw, and the
\* subscribers, native listeners, relay bookkeeping and pending queues are
\* what they were before the call.
C6_NotCallable ==
  [][\A info \in BadHandlerInfos :
       (/\ lastCall'.op \in {"on", "off", "once"}
        /\ \/ On(info)
           \/ Off(info)
           \/ Once(info)) => Thrown]_vars

\* off() threw on a handler that is no function while the name was bound and
\* subscribed.
C6_Witness ==
  /\ lastCall.op = "off"
  /\ lastCall.ret = "threw"
  /\ Subscribers("video-dom", <<"click">>) # {}
  /\ <<"click">> \in BoundNames("video-dom")

\* --------------------------------------------------------------- C7, C8

TeardownInfos == SubInfos(LifeKeys, {P1}, {H1})

\* A player that is set up, used and destroyed: the pointer relays, the
\* subscriptions, the media engine and its switch, an extended node that comes
\* and goes, and destroy() as the last call.
NextTeardown ==
  \/ ListenOnMouseMoveEvent
  \/ \E info \in TeardownInfos : On(info)
  \/ \E info \in TeardownInfos : Off(info)
  \/ CreateKernel("k1")
  \/ ApplyPendingEvents("kernel")
  \/ \E k \in KernelObjs : MigrateKernelEvent(k)
  \/ \E remove \in BOOLEAN : BindEventOnPenetrateNode("e1", remove)
  \/ Destroy

SpecTeardown == Init /\ [][NextTeardown]_vars

\* Every relay function the bookkeeping of any kind records.
AllRecordedRelays ==
  UNION {{bindedEventInfo[k][i][2] : i \in 1..Len(bindedEventInfo[k])} : k \in Kinds}

\* C7: after destroy() no relay that the bookkeeping recorded is attached to
\* the media engine, to a container, wrapper or video node, or to an extended
\* node.
C7_DestroyDetaches ==
  /\ [](destroyed => AllRecordedRelays \cap AttachedFns = {})
  /\ [][(lastCall'.op = "destroy" /\ Destroy) =>
          /\ AllRecordedRelays \cap AttachedFns' = {}
          /\ lastCall'.attached = {}]_vars

\* destroy() took relays off the media engine, off the video node and off an
\* extended node.
C7_Witness ==
  /\ destroyed
  /\ lastCall.op = "destroy"
  /\ \E x \in lastCall.detached : x[1] = kernel
  /\ \E x \in lastCall.detached : x[1] = videoElement
  /\ \E x \in lastCall.detached : x[1] = "e1"
  /\ \E x \in lastCall.detached : x[1] = "container"

\* C8 as stated: after destroy() the relay entries and the bound names of
\* every target kind are empty.
C8_AllBookkeepingCleared ==
  destroyed =>
    \A k \in Kinds : bindedEventInfo[k] = <<>> /\ bindedEventNames[k] = <<>>

\* -------------------------------------------------------------- C9, C10

MouseEnter == <<"mouseenter">>

MouseLeave == <<"mouseleave">>

\* The whitelist names, as the resolver places them and with target video.
MouseKeys ==
  {<<Str(MouseEnter), Absent>>, <<Str(MouseLeave), Absent>>,
   <<Str(MouseEnter), "video">>}

MouseInfos == SubInfos(MouseKeys, {P1}, {H1})

\* The pointer relays, subscriptions to the whitelist names, an extended node
\* that comes and goes, and the pointer moving over the video node, the
\* extended node and the page around them.
NextMouse ==
  \/ ListenOnMouseMoveEvent
  \/ \E info \in MouseInfos : On(info)
  \/ \E info \in MouseInfos : Off(info)
  \/ \E info \in MouseInfos : Once(info)
  \/ \E remove \in BOOLEAN : BindEventOnPenetrateNode("e1", remove)
  \/ \E node \in {"v1", "e1"}, type \in {MouseEnter, MouseLeave},
        to \in {"v1", "e1", Outside} : DomEvent(node, type, to)

SpecMouse == Init /\ [][NextMouse]_vars

\* The dispatches of `name` that a call made through a fused relay.
Synthetic(call, name) ==
  {d \in call.dispatched : d.via.kind = "fused" /\ d.name = name}

FusedOn(node, name) ==
  \E l \in domListeners : l.node = node /\ l.name = name /\ l.fn.kind = "fused"

\* What a native event of `type` on `node`, going to `to`, has to do.
PointerStep(node, type, to) ==
  /\ (type = MouseLeave /\ isNodeInsideVideo(St, to)) =>
       /\ mouseInVideo' = mouseInVideo
       /\ Synthetic(lastCall', MouseEnter) = {}
       /\ Synthetic(lastCall', MouseLeave) = {}
  /\ (type = MouseEnter /\ mouseInVideo) =>
       /\ mouseInVideo'
       /\ Synthetic(lastCall', MouseEnter) = {}
       /\ Synthetic(lastCall', MouseLeave) = {}
  /\ (type = MouseEnter /\ ~mouseInVideo /\ FusedOn(node, MouseEnter)) =>
       /\ mouseInVideo'
       /\ Cardinality(Synthetic(lastCall', MouseEnter)) = 1
  /\ (type = MouseLeave /\ mouseInVideo /\ ~isNodeInsideVideo(St, to)
      /\ FusedOn(node, MouseLeave)) =>
       /\ ~mouseInVideo'
       /\ Cardinality(Synthetic(lastCall', MouseLeave)) = 1

\* C9: the fused relay emits a synthetic enter exactly in the steps that flip
\* the pointer-inside boolean from false to true and a synthetic leave exactly
\* in the steps that flip it from true to false, so the two alternate; a
\* native leave towards a node of the composite surface and a native enter
\* while the boolean is true change nothing and emit nothing.
C9_PointerAlternation ==
  [][/\ (~mouseInVideo /\ mouseInVideo')
          <=> Synthetic(lastCall', MouseEnter) # {}
     /\ (mouseInVideo /\ ~mouseInVideo')
          <=> Synthetic(lastCall', MouseLeave) # {}
     /\ Cardinality(Synthetic(lastCall', MouseEnter)) <= 1
     /\ Cardinality(Synthetic(lastCall', MouseLeave)) <= 1
     /\ \A node \in {"v1", "e1"}, type \in {MouseEnter, MouseLeave},
           to \in {"v1", "e1", Outside} :
          (lastCall'.op = "domEvent" /\ DomEvent(node, type, to))
            => PointerStep(node, type, to)]_vars

\* The pointer left the composite surface, which has an extended node: one
\* synthetic leave went to the subscriber and the boolean is false again.
C9_Witness ==
  /\ lastCall.op = "domEvent"
  /\ "e1" \in videoExtendedNodes
  /\ FusedOn("e1", MouseLeave)
  /\ ~mouseInVideo
  /\ \E d \in Synthetic(lastCall, MouseLeave) : d.to # {}

\* C10 as stated: once listenOnMouseMoveEvent has run, the fused relays of the
\* whitelist names stay on the primary video node and in the bookkeeping.
C10_WhitelistStays ==
  (listened /\ ~destroyed) =>
    \A i \in 1..Len(mustListenVideoDomEvents) :
      /\ FusedOn(videoElement, mustListenVideoDomEvents[i])
      /\ mustListenVideoDomEvents[i] \in BoundNames("video-dom")
      /\ mustListenVideoDomEvents[i] \in InfoNames("video-dom")

\* ------------------------------------------------------------------ C11

\* The dispatcher replaces its video element: it takes the relays off the
\* node it has, makes the new node its video element and replays the relays
\* on it, all within one call.
SwapVideo(newNode) ==
  /\ ~destroyed
  /\ newNode # videoElement
  /\ \E s1 \in {bindEventOnVideo(St, videoElement, TRUE)} :
       \E s2 \in {bindEventOnVideo([s1 EXCEPT !.videoElement = newNode],
                                   newNode, FALSE)} :
          /\ Commit(s2)
          /\ lastCall' = Call("bindEventOnVideo", "void", s2)
  /\ UNCHANGED <<listened, destroyed>>

VideoKeys ==
  {<<Str(<<"play">>), Absent>>, <<Str(<<"click">>), Absent>>,
   <<Str(<<"wheel">>), "video-dom">>}

VideoInfos == SubInfos(VideoKeys, {P1}, {H1})

\* Subscriptions to video and video-dom names, the pointer relays, an
\* extended node, and the video element being replaced.
NextVideo ==
  \/ ListenOnMouseMoveEvent
  \/ \E info \in VideoInfos : On(info)
  \/ \E info \in VideoInfos : Off(info)
  \/ \E remove \in BOOLEAN : BindEventOnPenetrateNode("e1", remove)
  \/ \E node \in VideoNodes : SwapVideo(node)

SpecVideo == Init /\ [][NextVideo]_vars

\* The (name, function) pairs recorded for video-dom and video.
VideoEntries ==
  UNION {{<<bindedEventInfo[k][i][1], bindedEventInfo[k][i][2]>> :
            i \in 1..Len(bindedEventInfo[k])} : k \in {"video-dom", "video"}}

\* The (name, function) pairs listening on a node in state s.
Carried(s, node) ==
  {<<l.name, l.fn>> : l \in {x \in s.domListeners : x.node = node}}

Swapped(old, new) ==
  \E after \in {St'} :
    /\ Carried(after, new) = VideoEntries
    /\ Carried(after, old) \cap VideoEntries = {}
    /\ \A x \in lastCall'.attached : x[1] = new /\ x[3] \in LiveFns(St)
    /\ \A l \in after.domListeners : l.passive = (l.name \in passiveEvents)
    /\ UNCHANGED <<bindedEventInfo, bindedEventNames, pendingEventsInfo, buses,
                   kernelListeners>>
    /\ bindEventOnVideo(after, new, FALSE).domListeners = after.domListeners
    /\ bindEventOnVideo(after, old, TRUE).domListeners = after.domListeners
    /\ \E mid \in {bindEventOnVideo(St, old, TRUE)} :
         bindEventOnVideo(mid, old, TRUE).domListeners = mid.domListeners

\* C11: bindEventOnVideo(old, true) followed by bindEventOnVideo(new, false)
\* leaves the new node with exactly the recorded relay functions of the video
\* and video-dom entries and the old node with none of them, creates no
\* function, changes no bookkeeping, pending queue or subscriber, and either
\* replay done a second time changes no listener.
C11_VideoSwap ==
  [][\A old, new \in VideoNodes :
       (videoElement = old /\ lastCall'.op = "bindEventOnVideo" /\ SwapVideo(new))
         => Swapped(old, new)]_vars

\* The video element was replaced while a video relay, a video-dom relay and
\* the pointer relays were bound.
C11_Witness ==
  /\ lastCall.op = "bindEventOnVideo"
  /\ videoElement = "v2"
  /\ \E x \in lastCall.attached : x[1] = "v2" /\ x[3].target = "video"
  /\ \E x \in lastCall.attached : x[1] = "v2" /\ x[3].kind = "fused"
  /\ \E x \in lastCall.detached : x[1] = "v1" /\ x[3].target = "video-dom"
  /\ Subscribers("video", <<"play">>) # {}

\* ------------------------------------------------------------------ C12

FlushTargets == {"kernel", "video-dom"}

Reversed(seq) == [i \in 1..Len(seq) |-> seq[Len(seq) + 1 - i]]

NothingButPending ==
  UNCHANGED <<kernel, kernelListeners, domListeners, videoElement,
              videoExtendedNodes, mouseInVideo, bindedEventNames,
              bindedEventInfo, buses>>

\* C12 as stated: whenever applyPendingEvents(target) returns, the pending
\* list of the target is empty, and a call on an empty list changes nothing.
C12_Original ==
  [][\A target \in FlushTargets :
       (lastCall'.op = "applyPendingEvents" /\ ApplyPendingEvents(target)) =>
         /\ pendingEventsInfo'[target] = <<>>
         /\ pendingEventsInfo[target] = <<>> => UNCHANGED binderVars]_vars

\* C12, amended: when applyPendingEvents(target) returns, the pending list of
\* the target is empty if the target is not kernel or the media engine is
\* attached; for kernel with the engine absent every entry is queued again,
\* so the list holds the same entries in reverse order and nothing else has
\* changed.  A call on an empty list changes nothing.
C12_FlushEmpties ==
  [][\A target \in FlushTargets :
       (lastCall'.op = "applyPendingEvents" /\ ApplyPendingEvents(target)) =>
         /\ (target # "kernel" \/ kernel # NoKernel) =>
              pendingEventsInfo'[target] = <<>>
         /\ (target = "kernel" /\ kernel = NoKernel) =>
              /\ pendingEventsInfo'[target] = Reversed(pendingEventsInfo[target])
              /\ NothingButPending
         /\ \A k \in Kinds \ {target} :
              pendingEventsInfo'[k] = pendingEventsInfo[k]
         /\ pendingEventsInfo[target] = <<>> => UNCHANGED binderVars]_vars

\* A flush with the engine absent has put two entries back in reverse order.
C12_Witness ==
  /\ lastCall.op = "applyPendingEvents"
  /\ kernel = NoKernel
  /\ pendingEventsInfo["kernel"] = <<<<<<"heartbeat">>, P2>>, <<<<"heartbeat">>, P1>>>>
  /\ kernelListeners = {}

\* ------------------------------------------------------------------ C13

\* Names that resolve to plugin and esFullscreen, a DOM name sent to plugin by
\* the caller, and a whitelist name with target video.
SkipKeys ==
  {<<Str(<<"ready">>), Absent>>,
   <<Str(<<"fullscreenchange">>), Absent>>,
   <<Str(<<"click">>), "plugin">>,
   <<Str(<<"mouseenter">>), "video">>}

SkipInfos == SubInfos(SkipKeys, {P1}, {H1})

\* Names that do get a relay or a pending entry.
RelayedInfos ==
  SubInfos({<<Str(<<"heartbeat">>), Absent>>, <<Str(<<"click">>), Absent>>},
           {P1}, {H1})

NextSkip ==
  \/ ListenOnMouseMoveEvent
  \/ \E info \in SkipInfos \cup RelayedInfos : On(info)
  \/ \E info \in SkipInfos \cup RelayedInfos : Off(info)
  \/ \E info \in SkipInfos : Once(info)
  \/ CreateKernel("k1")
  \/ ApplyPendingEvents("kernel")

SpecSkip == Init /\ [][NextSkip]_vars

\* on() that only registers the subscriber.
OnlySubscribed(info) ==
  LET p == prettifyEventParameter(info)
  IN /\ lastCall'.ret = "bus"
     /\ lastCall'.attached = {}
     /\ lastCall'.detached = {}
     /\ UNCHANGED <<kernelListeners, domListeners, bindedEventInfo,
                    bindedEventNames, pendingEventsInfo>>
     /\ buses' = buses \cup {[target |-> p.target, name |-> p.name,
                              stage |-> p.stage, id |-> p.id, fn |-> p.fn,
                              once |-> FALSE]}
     /\ \/ p.target \in {"plugin", "esFullscreen"}
        \/ (p.target = "video" /\ p.name = MouseEnter)

\* C13: on() for a plugin or esFullscreen target, or for a whitelist name with
\* target video, attaches no native listener, queues nothing and changes no
\* bookkeeping, and registers the subscriber on the Bus of the target; the
\* plugin and esFullscreen bookkeeping is empty in every state.
C13_SkippedKinds ==
  /\ [](\A k \in {"plugin", "esFullscreen"} :
          /\ bindedEventInfo[k] = <<>>
          /\ bindedEventNames[k] = <<>>
          /\ pendingEventsInfo[k] = <<>>)
  /\ [][\A info \in SkipInfos :
          (lastCall'.op = "on" /\ On(info)) => OnlySubscribed(info)]_vars

\* Subscribers on esFullscreen and video (whitelist name) with the pointer
\* relays as the only native listeners.
C13_Witness ==
  /\ lastCall.op = "on"
  /\ Subscribers("esFullscreen", <<"fullscreenchange">>) # {}
  /\ Subscribers("video", MouseEnter) # {}
  /\ listened
  /\ \A l \in domListeners : l.fn.kind = "fused"
  /\ bindedEventInfo["video"] = <<>>

\* ------------------------------------------------------------- C14, C15

\* Raw names: plain, with a legacy prefix, with a stage prefix, with both,
\* in two tables, in no table.
RawNames ==
  {<<"click">>, <<"c_", "click">>, <<"w_", "click">>, <<"error">>,
   <<"c_", "error">>, <<"w_", "before", "Click">>, <<"play">>,
   <<"before", "Play">>, <<"after", "Click">>, <<"_", "click">>,
   <<"before", "Error">>, <<"heartbeat">>, <<"fullscreenchange">>,
   <<"mouseenter">>, <<"ready">>}

OptionalTargets == {Absent} \cup Kinds

OptionalStages == {Absent, "before", "main", "after", "_"}

\* Descriptors as callers write them.
RawDescriptors ==
  {Raw(Str(n), t, st, P1, H1) :
     n \in RawNames, t \in OptionalTargets, st \in OptionalStages}

\* The names and targets the operations below are called with.
ResolveKeys ==
  {<<Str(n), t>> :
     n \in {<<"c_", "click">>, <<"error">>, <<"c_", "error">>,
            <<"before", "Error">>, <<"ready">>},
     t \in {Absent, "video-dom"}}

ResolveInfos == SubInfos(ResolveKeys, {P1}, {H1})

\* Descriptors resolved by on, off and once.
NextResolve ==
  \/ \E info \in ResolveInfos : On(info)
  \/ \E info \in ResolveInfos : Off(info)
  \/ \E info \in ResolveInfos : Once(info)

SpecResolve == Init /\ [][NextResolve]_vars

\* The first table, in the order video, kernel, video-dom, esFullscreen, that
\* holds the name; plugin when none does.
FirstTable(name) ==
  LET order == <<videoEvents, kernelEvents, domEvents, esFullscreenEvents>>
      owner == <<"video", "kernel", "video-dom", "esFullscreen">>
      hits == {i \in 1..4 : name \in order[i]}
  IN IF hits = {} THEN "plugin"
     ELSE owner[CHOOSE i \in hits : \A j \in hits : i <= j]

\* The name without a leading before, after or _.
StageStripped(name) ==
  IF name # <<>> /\ Head(name) \in {"before", "after", "_"}
  THEN camelize(Tail(name)) ELSE name

\* The target the rule gives to a raw name and an optional target.
RuledTarget(name, target) ==
  IF name # <<>> /\ Head(name) = "c_" THEN "container"
  ELSE IF name # <<>> /\ Head(name) = "w_" THEN "wrapper"
  ELSE IF name = <<"error">> THEN "kernel"
  ELSE IF target # Absent THEN target
  ELSE FirstTable(StageStripped(name))

\* The raw name without its legacy prefix.
Unprefixed(name) ==
  IF name # <<>> /\ Head(name) \in {"c_", "w_"} THEN Tail(name) ELSE name

Ruled(d) ==
  /\ getEventInfo(d).target = RuledTarget(d.name.val, d.target)
  /\ getEventInfo(d).name = StageStripped(Unprefixed(d.name.val))

\* C14: the resolver gives container to a name with prefix c_, wrapper to one
\* with prefix w_ and kernel to the bare name error, stripping the prefix;
\* otherwise the target of the caller when there is one; otherwise the first
\* table that holds the stage-stripped name, in the order video, kernel,
\* video-dom, esFullscreen, and plugin when none holds it.  on() registers
\* its subscriber on the Bus of that target.
C14_TargetRule ==
  /\ [](\A d \in RawDescriptors : Ruled(d))
  /\ [][\A info \in ResolveInfos :
          (lastCall'.op = "on" /\ On(info)) =>
            \E b \in buses' :
              /\ b.target = RuledTarget(info.name.val, info.target)
              /\ b.name = StageStripped(Unprefixed(info.name.val))
              /\ (b \notin buses \/ buses' = buses)]_vars

\* on() has resolved beforeError by the tables to video, where error stands
\* before the table of the kernel, and c_error by its prefix to container.
C14_Witness ==
  /\ lastCall.op = "on"
  /\ \E b \in buses : b.target = "video" /\ b.name = <<"error">> /\ b.stage = "before"
  /\ \E b \in buses : b.target = "container" /\ b.name = <<"error">>

\* The canonical descriptor under which a subscriber is registered, as a
\* descriptor handed to the resolver again.
Canonical(b) == Raw(Str(b.name), b.target, b.stage, b.id, b.fn)

\* C15 as stated: resolving the canonical descriptor of any registered
\* subscriber (an output of the resolver) gives the same name, target and
\* stage again.
C15_Idempotent ==
  \A b \in buses :
    getEventInfo(Canonical(b)) =
      [name |-> b.name, target |-> b.target, stage |-> b.stage]

\* ------------------------------------------------------------------- C16

\* C16 as stated: before destroy every relay entry of kernel, container,
\* wrapper, video and video-dom, the whitelist relays of the containment
\* tracker apart, has a subscriber for its name on the bus of its target.
C16_RelayHasSubscriber ==
  ~destroyed =>
    \A t \in HandledKinds : \A i \in 1..Len(bindedEventInfo[t]) :
      bindedEventInfo[t][i][2].kind # "fused" =>
        Subscribers(t, bindedEventInfo[t][i][1]) # {}


\* ------------------------------------------------------------------- C17

\* C17 as stated: before destroy, with the media engine attached and nothing
\* waiting in the queues, every name that has a subscriber (added by on() or by
\* once()) on a relayed kind, whitelist names on video apart, has a relay
\* attached to the source of its target and an entry in the bookkeeping.
C17_SubscribedIsRelayed ==
  (~destroyed /\ kernel # NoKernel /\ \A k \in Kinds : pendingEventsInfo[k] = <<>>) =>
    \A b \in buses :
      (b.target \in HandledKinds /\ _isEventNeedToBeHandled(b.target, b.name)) =>
        /\ RelaysOnSource(b.target, b.name) # {}
        /\ EntryCount(b.target, b.name) >= 1


\* ------------------------------------------------------------------- C18

ExtendKeys == {<<Str(<<"click">>), Absent>>, <<Str(MouseEnter), Absent>>}

ExtendInfos == SubInfos(ExtendKeys, {P1, P2}, {H1})

\* Subscriptions to video-dom names and an extended node that is registered
\* and unregistered, in any order.  The dispatcher listens for the pointer
\* when it builds its dom, before a plugin can register a node.
NextExtend ==
  \/ (videoExtendedNodes = {} /\ ListenOnMouseMoveEvent)
  \/ \E info \in ExtendInfos : On(info)
  \/ \E info \in ExtendInfos : Off(info)
  \/ \E remove \in BOOLEAN : BindEventOnPenetrateNode("e1", remove)

SpecExtend == Init /\ [][NextExtend]_vars

\* The nodes that make up the video surface in state s.
Surface(s) == {s.videoElement} \cup s.videoExtendedNodes

\* The functions listening for `name` on `node` in state s.
FnsOn(s, node, name) ==
  {l.fn : l \in {x \in s.domListeners : x.node = node /\ x.name = name}}

EveryEntryOnSurface ==
  \A i \in 1..Len(bindedEventInfo["video-dom"]) : \A node \in Surface(St) :
    bindedEventInfo["video-dom"][i][2]
      \in FnsOn(St, node, bindedEventInfo["video-dom"][i][1])

\* off() that takes the last subscriber of a bound video-dom name away.
LastUnsubscribe(info) ==
  LET p == prettifyEventParameter(info)
  IN (/\ p.name \in BoundNames("video-dom")
      /\ Subscribers("video-dom", p.name) # {}
      /\ Subscribers("video-dom", p.name)' = {})
     => \E after \in {St'} :
          /\ \A node \in Nodes :
               FnsOn(after, node, p.name) \cap RecordedRelays("video-dom", p.name) = {}
          /\ \A x \in lastCall'.detached :
               x[1] \in Surface(St) /\ x[3] \in RecordedRelays("video-dom", p.name)
          /\ {x[1] : x \in lastCall'.detached} = Surface(St)

\* C18: before destroy every relay recorded for video-dom is attached to the
\* primary video node and to every registered extended node, whether the node
\* was registered before or after the subscription; an unregistered node
\* carries none of them; and off() of the last subscriber of a video-dom name
\* takes its relay off all of these nodes.
C18_ExtendedSurface ==
  /\ [](~destroyed => EveryEntryOnSurface)
  /\ [][(lastCall'.op = "bindEventOnPenetrateNode"
         /\ BindEventOnPenetrateNode("e1", TRUE))
        => \A i \in 1..Len(bindedEventInfo["video-dom"]) :
             bindedEventInfo["video-dom"][i][2]
               \notin FnsOn(St, "e1", bindedEventInfo["video-dom"][i][1])']_vars
  /\ [][\A info \in ExtendInfos :
          (lastCall'.op = "off" /\ Off(info)) => LastUnsubscribe(info)]_vars

\* The last subscriber of click left while an extended node was registered,
\* and the relay came off the video node and the extended node.
C18_Witness ==
  /\ lastCall.op = "off"
  /\ "e1" \in videoExtendedNodes
  /\ \E x \in lastCall.detached : x[1] = "e1" /\ x[2] = <<"click">>
  /\ \E x \in lastCall.detached : x[1] = "v1" /\ x[2] = <<"click">>
  /\ Subscribers("video-dom", <<"click">>) = {}
  /\ listened


\* ------------------------------------------------------------------- C19

\* The names of seq in order, each at its first place only, those of `seen`
\* left out.
RECURSIVE FirstOfEach(_, _)
FirstOfEach(seq, seen) ==
  IF seq = <<>> THEN <<>>
  ELSE IF Head(seq) \in seen THEN FirstOfEach(Tail(seq), seen)
  ELSE <<Head(seq)>> \o FirstOfEach(Tail(seq), seen \cup {Head(seq)})

\* The queued names of the kernel, the last one queued first.
QueuedLastFirst ==
  Reversed([i \in 1..Len(pendingEventsInfo["kernel"]) |->
              pendingEventsInfo["kernel"][i][1]])

\* The flush of the kernel queue with the media engine attached.
FlushedInReverse ==
  \E after \in {St'} :
    \E new \in {FirstOfEach(QueuedLastFirst, BoundNames("kernel"))} :
      /\ after.pendingEventsInfo["kernel"] = <<>>
      /\ after.bindedEventNames["kernel"] = bindedEventNames["kernel"] \o new
      /\ Len(after.bindedEventInfo["kernel"]) = Len(after.bindedEventNames["kernel"])
      /\ \A i \in 1..Len(after.bindedEventInfo["kernel"]) :
           after.bindedEventInfo["kernel"][i][1] = after.bindedEventNames["kernel"][i]
      /\ SubSeq(after.bindedEventInfo["kernel"], 1, Len(bindedEventInfo["kernel"]))
           = bindedEventInfo["kernel"]
      /\ lastCall'.attached =
           {<<kernel, after.bindedEventInfo["kernel"][i][1],
              after.bindedEventInfo["kernel"][i][2]>> :
              i \in (Len(bindedEventInfo["kernel"]) + 1)..Len(after.bindedEventInfo["kernel"])}
      /\ Cardinality(lastCall'.attached) = Len(new)
      /\ lastCall'.detached = {}
      /\ after.buses = buses

\* C19: with the media engine attached, applyPendingEvents('kernel') empties
\* the queue and subscribes each queued name once, the last one queued first:
\* the relays it attaches to the engine are appended to the kernel entries in
\* reverse arrival order of the distinct queued names that were not bound yet.
C19_ReverseDrain ==
  [][(lastCall'.op = "applyPendingEvents" /\ kernel # NoKernel
      /\ ApplyPendingEvents("kernel")) => FlushedInReverse]_vars

\* heartbeat was queued before error, and the flush bound error first.
C19_Witness ==
  /\ lastCall.op = "applyPendingEvents"
  /\ kernel # NoKernel
  /\ bindedEventNames["kernel"] = <<<<"error">>, <<"heartbeat">>>>
  /\ Cardinality(lastCall.attached) = 2
  /\ pendingEventsInfo["kernel"] = <<>>


\* ------------------------------------------------------------------- C20

RouteKeys ==
  {<<Str(<<"c_", "click">>), Absent>>, <<Str(<<"w_", "click">>), Absent>>,
   <<Str(<<"error">>), Absent>>, <<Str(<<"click">>), Absent>>,
   <<Str(<<"click">>), "container">>}

RouteInfos == SubInfos(RouteKeys, {P1}, {H1})

\* The same names and targets, as an emitter passes them.
RouteEmits == {Raw(k[1], k[2], Absent, P1, Undef) : k \in RouteKeys}

\* Subscriptions and emits under plain and legacy names.
NextRoute ==
  \/ \E info \in RouteInfos : On(info)
  \/ \E info \in RouteInfos : Off(info)
  \/ \E info \in RouteEmits : Emit(info)
  \/ \E info \in RouteEmits : EmitSync(info)
  \/ \E info \in RouteEmits : Trigger(info)
  \/ \E info \in RouteEmits : TriggerSync(info)

SpecRoute == Init /\ [][NextRoute]_vars

\* A call of the emit family with `info` dispatches once, on the bus and
\* under the name that on() registers `info` with, to the subscribers there.
RoutedLikeOn(info) ==
  LET p == prettifyEventParameter(info)
  IN \E d \in lastCall'.dispatched :
       /\ lastCall'.dispatched = {d}
       /\ d.target = p.target
       /\ d.name = p.name
       /\ d.to = {<<b.id, b.fn>> : b \in Subscribers(p.target, p.name)}

\* C20 as stated: for every emittable raw name and optional target, emit,
\* emitSync, trigger and triggerSync dispatch on the bus of the target kind and
\* under the event name under which on() with that raw name and target
\* registers its subscriber.
C20_EmitReachesOn ==
  [][\A info \in RouteEmits :
       /\ (lastCall'.op = "emit" /\ Emit(info)) => RoutedLikeOn(info)
       /\ (lastCall'.op = "emitSync" /\ EmitSync(info)) => RoutedLikeOn(info)
       /\ (lastCall'.op = "trigger" /\ Trigger(info)) => RoutedLikeOn(info)
       /\ (lastCall'.op = "triggerSync" /\ TriggerSync(info)) => RoutedLikeOn(info)]_vars

====
